---- MODULE Spec2Model ----
(***************************************************************************)
(* scripts/fetch_data.py: the paginated OHLCV fetch (fetch_ohlcv_data),    *)
(* the CSV store (save_to_csv, load_existing_data, merge_and_save_data)    *)
(* and the per-symbol pipeline of main, for one series key.                *)
(*                                                                         *)
(* A candle is a pair <<timestamp, payload>>: candle[1] is the code's      *)
(* candle[0] (open time, ms) and candle[2] stands for the code's           *)
(* candle[1..5] (open, high, low, close, volume), which the code only      *)
(* copies.  The exchange is the environment: each request is answered by   *)
(* an arbitrary batch or by one of the three kinds of exception.           *)
(***************************************************************************)
EXTENDS Integers, Sequences, FiniteSets, TLC

\* ----------------------------------------------------------------- bounds
MaxBucket == 2          \* timestamps are 0, 1, .., MaxBucket buckets
MaxVal    == 2          \* payloads are 1 .. MaxVal
MaxBatch  == 2          \* longest batch the exchange answers with
MaxData   == 3          \* longest all_data the model lets a fetch accumulate
MaxSymbol == 3          \* longest symbol put through the conversions

\* ------------------------------------------------------ program constants
TIMEFRAME_TO_SECONDS ==
    ("1m" :> 60) @@ ("3m" :> 180) @@ ("5m" :> 300) @@ ("15m" :> 900) @@
    ("30m" :> 1800) @@ ("1h" :> 3600) @@ ("2h" :> 7200) @@ ("4h" :> 14400) @@
    ("6h" :> 21600) @@ ("12h" :> 43200) @@ ("1d" :> 86400) @@
    ("3d" :> 259200) @@ ("1w" :> 604800)

timeframe == "1m"
timeframe_ms == TIMEFRAME_TO_SECONDS[timeframe] * 1000
interval_sc == TIMEFRAME_TO_SECONDS[timeframe]
default_max_retries == 3
limit == 1000
symbol == <<"B", "T", "C", "/", "U", "S", "D", "T">>

\* ------------------------------------------------------------ input sets
Times      == {b * timeframe_ms : b \in 0..MaxBucket}
Vals       == 1..MaxVal
Candles    == Times \X Vals
StartTimes == {0, timeframe_ms}
EndTimes   == {(MaxBucket - 1) * timeframe_ms, MaxBucket * timeframe_ms}
RateLimits == {0, 50}
RECURSIVE SeqsUpTo(_, _)
SeqsUpTo(S, n) ==
    IF n = 0 THEN {<<>>}
    ELSE LET shorter == SeqsUpTo(S, n - 1)
         IN  shorter \cup {Append(s, x) : s \in {t \in shorter : Len(t) = n - 1}, x \in S}
Batches == SeqsUpTo(Candles, MaxBatch)
Chars   == {"A", "B", "/", "-"}
Symbols == SeqsUpTo(Chars, MaxSymbol) \ {<<>>}

VARIABLES
    pc,             \* where the pipeline of one symbol stands
    file,           \* the CSV file of the series key
    start_time, end_time, max_retries,      \* arguments of fetch_ohlcv_data
    rateLimit,      \* exchange.rateLimit (ms)
    all_data, current_start, retry_count, success,   \* locals of the fetch
    ohlcv,          \* the last answer of exchange.fetch_ohlcv
    log,            \* requests and sleeps since the last successful batch
    outcome,        \* how the fetch loop was left
    sorted_data,    \* the list fetch_ohlcv_data returned
    incremental,    \* argument of the running merge_and_save_data
    prior,          \* the file when merge_and_save_data was entered
    target,         \* the rows write_csv is writing
    prev,           \* what an earlier call with the same arguments returned
    market,         \* the candles a well-behaved exchange holds, ascending
    cap,            \* the most candles that exchange puts in one answer
    conv            \* a symbol on its way through the two conversions

vars == <<pc, file, start_time, end_time, max_retries, rateLimit, all_data,
          ohlcv, current_start, retry_count, success, log, outcome, sorted_data,
          incremental, prior, target, prev, market, cap, conv>>

fetchArgs   == <<start_time, end_time, max_retries, rateLimit>>
fetchLocals == <<all_data, ohlcv, current_start, retry_count, success, log>>
storeVars   == <<file, incremental, prior, target>>
envVars     == <<market, cap, conv>>

\* ----------------------------------------------------------------- helpers
RECURSIVE Pow2(_)
Pow2(n) == IF n = 0 THEN 1 ELSE 2 * Pow2(n - 1)

\* a backoff that grows by steps instead of doubling
Backoff_linear(rc) == 2 * rc

\* 2**retry_count, the seconds slept after a failed request
Backoff(rc) == Pow2(rc)

Last(s) == s[Len(s)]

\* symbol.replace("/", "-")
convert_symbol_to_csv_format(s) ==
    [i \in DOMAIN s |-> IF s[i] = "/" THEN "-" ELSE s[i]]

\* symbol.replace("-", "/")
convert_csv_to_ccxt_format(s) ==
    [i \in DOMAIN s |-> IF s[i] = "-" THEN "/" ELSE s[i]]

\* the filter with <= in place of <
RECURSIVE filtered_ohlcv_le(_, _)
filtered_ohlcv_le(batch, et) ==
    IF batch = <<>> THEN <<>>
    ELSE IF Head(batch)[1] <= et
         THEN <<Head(batch)>> \o filtered_ohlcv_le(Tail(batch), et)
         ELSE filtered_ohlcv_le(Tail(batch), et)

\* [candle for candle in ohlcv if candle[0] < end_time]
RECURSIVE filtered_ohlcv(_, _)
filtered_ohlcv(batch, et) ==
    IF batch = <<>> THEN <<>>
    ELSE IF Head(batch)[1] < et
         THEN <<Head(batch)>> \o filtered_ohlcv(Tail(batch), et)
         ELSE filtered_ohlcv(Tail(batch), et)

\* no deduplication before the sort
unique_data_none(data) == data

\* the dict written without the membership test: the last candle of each
\* timestamp
RECURSIVE unique_data_last(_)
unique_data_last(data) ==
    IF data = <<>> THEN <<>>
    ELSE LET rest == unique_data_last(Tail(data))
         IN  IF \E i \in DOMAIN rest : rest[i][1] = Head(data)[1] THEN rest
             ELSE <<Head(data)>> \o rest

\* the dict of lines 175-179: the first candle of each timestamp, in
\* insertion order
RECURSIVE unique_data(_)
unique_data(data) ==
    IF data = <<>> THEN <<>>
    ELSE LET init == unique_data(SubSeq(data, 1, Len(data) - 1))
             c    == Last(data)
         IN  IF \E i \in DOMAIN init : init[i][1] = c[1] THEN init
             ELSE Append(init, c)

\* sorted(..., key=lambda x: x[0]): a stable sort on the timestamp
RECURSIVE InsertCandle(_, _)
InsertCandle(s, c) ==
    IF s = <<>> THEN <<c>>
    ELSE IF Last(s)[1] <= c[1] THEN Append(s, c)
         ELSE Append(InsertCandle(SubSeq(s, 1, Len(s) - 1), c), Last(s))

RECURSIVE sorted_by_timestamp(_)
sorted_by_timestamp(data) ==
    IF data = <<>> THEN <<>>
    ELSE InsertCandle(sorted_by_timestamp(SubSeq(data, 1, Len(data) - 1)), Last(data))

\* lines 174-184: what fetch_ohlcv_data returns for an accumulated all_data
FetchResult(data) == sorted_by_timestamp(unique_data(data))

\* ------------------------------------------------------------------ store
NoFile      == [kind |-> "absent", rows |-> <<>>]
CorruptFile == [kind |-> "corrupt", rows |-> <<>>]
DataFile(rows) == [kind |-> "data", rows |-> rows]

\* os.path.exists(output_path)
Exists(f) == f.kind # "absent"

\* one dict of lines 212-223 / 301-312: int() and float() leave the numbers
\* of the exchange as they are, the symbol is converted, the interval added
Row(candle) ==
    [symbol            |-> convert_symbol_to_csv_format(symbol),
     interval_sc       |-> interval_sc,
     open_timestamp_ms |-> candle[1],
     ohlcv             |-> candle[2]]

\* pl.DataFrame(df_data)
new_df(data) == [i \in 1..Len(data) |-> Row(data[i])]

\* pl.read_csv(filepath): a data frame, or an exception for a file that
\* cannot be parsed
read_csv(f) ==
    IF f.kind = "data"
    THEN [raises |-> FALSE, rows |-> f.rows]
    ELSE [raises |-> TRUE, rows |-> <<>>]

\* the load without its try/except
load_existing_data_nocatch(f) ==
    IF Exists(f)
    THEN [some |-> ~read_csv(f).raises, rows |-> read_csv(f).rows,
          raises |-> read_csv(f).raises]
    ELSE [some |-> FALSE, rows |-> <<>>, raises |-> FALSE]

\* lines 264-274: the data frame, or None (some = FALSE) when the file is
\* missing or read_csv raised; the except clause swallows the exception
load_existing_data(f) ==
    IF Exists(f) /\ ~read_csv(f).raises
    THEN [some |-> TRUE, rows |-> read_csv(f).rows, raises |-> FALSE]
    ELSE [some |-> FALSE, rows |-> <<>>, raises |-> FALSE]

\* keep="first" in place of keep="last"
RECURSIVE unique_keep_first(_)
unique_keep_first(rows) ==
    IF rows = <<>> THEN <<>>
    ELSE LET init == unique_keep_first(SubSeq(rows, 1, Len(rows) - 1))
         IN  IF \E i \in DOMAIN init :
                   init[i].open_timestamp_ms = rows[Len(rows)].open_timestamp_ms
             THEN init
             ELSE Append(init, rows[Len(rows)])

\* unique(subset=["open_timestamp_ms"], keep="last"): the last row of each
\* timestamp stays.  Polars leaves the order of the result open; the sort
\* that follows is on a key that is now unique, so the order chosen here
\* cannot be seen.
RECURSIVE unique_keep_last(_)
unique_keep_last(rows) ==
    IF rows = <<>> THEN <<>>
    ELSE LET rest == unique_keep_last(Tail(rows))
         IN  IF \E i \in DOMAIN rest :
                   rest[i].open_timestamp_ms = Head(rows).open_timestamp_ms
             THEN rest
             ELSE <<Head(rows)>> \o rest

\* sort("open_timestamp_ms")
RECURSIVE InsertRow(_, _)
InsertRow(s, r) ==
    IF s = <<>> THEN <<r>>
    ELSE IF Last(s).open_timestamp_ms <= r.open_timestamp_ms THEN Append(s, r)
         ELSE Append(InsertRow(SubSeq(s, 1, Len(s) - 1), r), Last(s))

\* the sort left out
sort_rows_none(rows) == rows

RECURSIVE sort_rows(_)
sort_rows(rows) ==
    IF rows = <<>> THEN <<>>
    ELSE InsertRow(sort_rows(SubSeq(rows, 1, Len(rows) - 1)), Last(rows))

\* the concatenation sorted but not deduplicated
combined_df_dups(existing_rows, new_rows) == sort_rows(existing_rows \o new_rows)

\* lines 317-323
combined_df(existing_rows, new_rows) ==
    sort_rows(unique_keep_last(existing_rows \o new_rows))

\* line 292: the prior dataset is loaded
LoadsPrior(f, inc) == inc /\ Exists(f)

\* an exception leaves merge_and_save_data (none does, unless the load lets
\* one through)
MergeRaises(f, inc) == LoadsPrior(f, inc) /\ load_existing_data(f).raises

\* the merge branch taken without looking at the incremental flag
TakesMergeBranch_any_mode(f, inc) ==
    /\ Exists(f)
    /\ load_existing_data(f).some
    /\ Len(load_existing_data(f).rows) > 0

\* line 292 and line 296: the branch that merges with the prior dataset
TakesMergeBranch(f, inc) ==
    /\ LoadsPrior(f, inc)
    /\ load_existing_data(f).some
    /\ Len(load_existing_data(f).rows) > 0

\* the rows merge_and_save_data hands to write_csv (lines 327 and 236)
RowsToWrite(f, new_data, inc) ==
    IF TakesMergeBranch(f, inc)
    THEN combined_df(load_existing_data(f).rows, new_df(new_data))
    ELSE new_df(new_data)

\* the file once merge_and_save_data has returned; save_to_csv writes
\* nothing for an empty list (lines 199-201)
Persisted(f, new_data, inc) ==
    IF ~TakesMergeBranch(f, inc) /\ new_data = <<>> THEN f
    ELSE DataFile(RowsToWrite(f, new_data, inc))

\* ------------------------------------------------------------------- Init
NoPrev == [called |-> FALSE, returned |-> <<>>, outcome |-> "running"]

NoConv == [step |-> "none", input |-> <<>>, mid |-> <<>>, out |-> <<>>]

\* the state of the program before main has fetched anything
InitProgram ==
    /\ pc = "idle"
    /\ file \in {NoFile, CorruptFile}
    /\ start_time = 0 /\ end_time = 0 /\ max_retries = 0
    /\ rateLimit \in RateLimits
    /\ all_data = <<>> /\ current_start = 0 /\ retry_count = 0
    /\ success = FALSE /\ log = <<>> /\ ohlcv = <<>>
    /\ outcome = "running" /\ sorted_data = <<>>
    /\ incremental = FALSE /\ prior = NoFile /\ target = <<>>
    /\ prev = NoPrev

Init ==
    /\ InitProgram
    /\ market = <<>> /\ cap = 0
    /\ conv = NoConv

\* ------------------------------------------------------------------ fetch
\* lines 172-184: leave the loops and return
Return(data, oc) ==
    /\ pc' = "fetched"
    /\ sorted_data' = FetchResult(data)
    /\ outcome' = oc

\* line 126 evaluated with retry counter rc after a failed request: another
\* request, or line 168 and the break out of the outer loop
InnerLoop(rc, mr, data) ==
    IF rc < mr
    THEN pc' = "request" /\ UNCHANGED <<sorted_data, outcome>>
    ELSE Return(data, "exhausted")

\* line 122 evaluated with cursor cs: a new round (lines 123-126) or the
\* end of the loop
OuterLoop(cs, et, mr, data, rc, s) ==
    IF cs < et
    THEN /\ retry_count' = 0
         /\ success' = FALSE
         /\ IF 0 < mr
            THEN pc' = "request" /\ sorted_data' = <<>> /\ outcome' = "running"
            ELSE Return(data, "exhausted")
    ELSE /\ retry_count' = rc
         /\ success' = s
         /\ Return(data, "complete")

\* main, lines 449-455, and fetch_ohlcv_data up to its first request; main
\* leaves max_retries at its default, other callers may pass less
CallFetch ==
    /\ pc \in {"idle", "saved", "error"}
    /\ \E st \in StartTimes, et \in EndTimes, mr \in 0..default_max_retries :
          /\ start_time' = st /\ end_time' = et /\ max_retries' = mr
          /\ all_data' = <<>>
          /\ ohlcv' = <<>>
          /\ current_start' = st
          /\ log' = <<>>
          /\ OuterLoop(st, et, mr, <<>>, 0, FALSE)
    /\ incremental' = FALSE /\ prior' = NoFile /\ target' = <<>>
    /\ UNCHANGED <<file, rateLimit, prev>>
    /\ UNCHANGED envVars

\* a cursor that jumps over the bucket after the last candle
next_current_start_skips(f) == Last(f)[1] + 2 * timeframe_ms

\* line 146: filtered_ohlcv[-1][0] + timeframe_ms
next_current_start(f) == Last(f)[1] + timeframe_ms

\* no sleep between requests
Pace_none == <<>>

\* lines 151-152: time.sleep(exchange.rateLimit / 1000) when it is not zero
Pace == IF rateLimit # 0 THEN << <<"pace", rateLimit>> >> ELSE <<>>

\* lines 129-152: the exchange answers with a batch that has candles below
\* end_time
Batch(answer) ==
    /\ pc = "request"
    /\ filtered_ohlcv(answer, end_time) # <<>>
    /\ Len(all_data) + Len(filtered_ohlcv(answer, end_time)) <= MaxData
    /\ LET f    == filtered_ohlcv(answer, end_time)
           data == all_data \o f
           cs   == next_current_start(f)
       IN  /\ ohlcv' = answer
           /\ all_data' = data
           /\ current_start' = cs
           /\ log' = Pace
           /\ OuterLoop(cs, end_time, max_retries, data, retry_count, TRUE)
    /\ UNCHANGED <<fetchArgs, storeVars, prev>>
    /\ UNCHANGED envVars

\* continue in place of break: the empty answer is followed by a new request
EmptyBatch_continues(answer) ==
    /\ pc = "request"
    /\ filtered_ohlcv(answer, end_time) = <<>>
    /\ ohlcv' = answer
    /\ log' = Append(log, <<"request", current_start>>)
    /\ pc' = "request"
    /\ UNCHANGED <<fetchArgs, storeVars, prev, all_data, current_start,
                   retry_count, success, sorted_data, outcome>>
    /\ UNCHANGED envVars

\* lines 133-134 and 139-140: nothing below end_time in the answer
EmptyBatch(answer) ==
    /\ pc = "request"
    /\ filtered_ohlcv(answer, end_time) = <<>>
    /\ ohlcv' = answer
    /\ log' = Append(log, <<"request", current_start>>)
    /\ Return(all_data, "nodata")
    /\ UNCHANGED <<fetchArgs, storeVars, prev, all_data, current_start,
                   retry_count, success>>
    /\ UNCHANGED envVars

\* a failed request that moves the cursor to the next bucket
Retry_advances ==
    /\ retry_count' = retry_count + 1
    /\ current_start' = current_start + timeframe_ms
    /\ log' = log \o << <<"request", current_start>>,
                        <<"backoff", Backoff(retry_count + 1)>> >>
    /\ InnerLoop(retry_count + 1, max_retries, all_data)
    /\ UNCHANGED <<fetchArgs, storeVars, prev, all_data, ohlcv, success>>
    /\ UNCHANGED envVars

\* lines 155-157 and 160-162: both handlers count, print and sleep alike
Retry ==
    /\ retry_count' = retry_count + 1
    /\ log' = log \o << <<"request", current_start>>,
                        <<"backoff", Backoff(retry_count + 1)>> >>
    /\ InnerLoop(retry_count + 1, max_retries, all_data)
    /\ UNCHANGED <<fetchArgs, storeVars, prev, all_data, ohlcv, current_start,
                   success>>
    /\ UNCHANGED envVars

NetworkError == pc = "request" /\ Retry

ExchangeError == pc = "request" /\ Retry

\* the exception handled like the two above: counted, slept on, retried
UnknownError_retried ==
    /\ pc = "request"
    /\ retry_count' = retry_count + 1
    /\ log' = log \o << <<"request", current_start>>,
                        <<"unknown", current_start>>,
                        <<"backoff", Backoff(retry_count + 1)>> >>
    /\ InnerLoop(retry_count + 1, max_retries, all_data)
    /\ UNCHANGED <<fetchArgs, storeVars, prev, all_data, ohlcv, current_start,
                   success>>
    /\ UNCHANGED envVars

\* lines 164-166
UnknownError ==
    /\ pc = "request"
    /\ log' = log \o << <<"request", current_start>>,
                        <<"unknown", current_start>> >>
    /\ Return(all_data, "unknown")
    /\ UNCHANGED <<fetchArgs, storeVars, prev, all_data, ohlcv, current_start,
                   retry_count, success>>
    /\ UNCHANGED envVars

\* ------------------------------------------------------------------- main
ForgetLocals ==
    /\ all_data' = <<>> /\ current_start' = 0 /\ retry_count' = 0
    /\ success' = FALSE /\ log' = <<>> /\ ohlcv' = <<>>

\* the empty list handed to the store, which writes an empty file
Skip_saves ==
    /\ pc = "fetched"
    /\ sorted_data = <<>>
    /\ pc' = "saved"
    /\ file' = DataFile(<<>>)
    /\ prior' = file
    /\ ForgetLocals
    /\ UNCHANGED <<fetchArgs, prev, sorted_data, outcome, incremental, target>>
    /\ UNCHANGED envVars

\* lines 457-459: nothing fetched, nothing saved
Skip ==
    /\ pc = "fetched"
    /\ sorted_data = <<>>
    /\ pc' = "idle"
    /\ ForgetLocals
    /\ UNCHANGED <<fetchArgs, storeVars, prev, sorted_data, outcome>>
    /\ UNCHANGED envVars

\* lines 462-469 and merge_and_save_data up to the moment write_csv has
\* opened (and so emptied) the file; an exception on the way is caught by
\* main (lines 471-473) and the file is not touched
MergeAndSave ==
    /\ pc = "fetched"
    /\ sorted_data # <<>>
    /\ \E inc \in BOOLEAN :
          /\ incremental' = inc
          /\ IF MergeRaises(file, inc)
             THEN /\ pc' = "error"
                  /\ UNCHANGED <<file, target>>
             ELSE /\ pc' = "writing"
                  /\ target' = RowsToWrite(file, sorted_data, inc)
                  /\ file' = DataFile(<<>>)
    /\ prior' = file
    /\ ForgetLocals
    /\ UNCHANGED <<fetchArgs, prev, sorted_data, outcome>>
    /\ UNCHANGED envVars

\* write_csv puts the next row into the file; after the last one
\* merge_and_save_data returns
WriteRow ==
    /\ pc = "writing"
    /\ file' = DataFile(Append(file.rows, target[Len(file.rows) + 1]))
    /\ pc' = IF Len(file.rows) + 1 = Len(target) THEN "saved" ELSE "writing"
    /\ UNCHANGED <<fetchArgs, fetchLocals, prev, sorted_data, outcome,
                   incremental, prior, target>>
    /\ UNCHANGED envVars

Next ==
    \/ CallFetch
    \/ \E answer \in Batches : Batch(answer)
    \/ \E answer \in Batches : EmptyBatch(answer)
    \/ NetworkError
    \/ ExchangeError
    \/ UnknownError
    \/ Skip
    \/ MergeAndSave
    \/ WriteRow

Spec == Init /\ [][Next]_vars

\* ------------------------------------------------------- two calls compared
\* main, lines 443-455, calls fetch_ohlcv_data once per symbol with the same
\* range and the same max_retries; here the caller keeps what the first call
\* returned and calls again
CallFetchAgain ==
    /\ pc = "fetched"
    /\ ~prev.called
    /\ prev' = [called |-> TRUE, returned |-> sorted_data, outcome |-> outcome]
    /\ all_data' = <<>>
    /\ ohlcv' = <<>>
    /\ current_start' = start_time
    /\ log' = <<>>
    /\ OuterLoop(start_time, end_time, max_retries, <<>>, 0, FALSE)
    /\ UNCHANGED <<fetchArgs, storeVars>>
    /\ UNCHANGED envVars

NextPair ==
    \/ CallFetch
    \/ \E answer \in Batches : Batch(answer)
    \/ \E answer \in Batches : EmptyBatch(answer)
    \/ NetworkError
    \/ ExchangeError
    \/ UnknownError
    \/ CallFetchAgain

SpecPair == Init /\ [][NextPair]_vars

\* ------------------------------------------------- a well-behaved exchange
\* the series an exchange can hold: one candle per timestamp, ascending
Markets ==
    {m \in SeqsUpTo(Candles, MaxBucket + 1) :
        \A i \in 1..(Len(m) - 1) : m[i][1] < m[i + 1][1]}

RECURSIVE From(_, _)
From(m, since) ==
    IF m = <<>> THEN <<>>
    ELSE IF Head(m)[1] >= since THEN m
         ELSE From(Tail(m), since)

Min(a, b) == IF a <= b THEN a ELSE b

\* fetch_ohlcv(since=current_start, limit=limit) answered by an exchange that
\* never fails: its earliest candles from since on, at most limit of them
\* and at most as many as it puts in one answer
WellBehavedAnswer(m, since, lim, c) ==
    SubSeq(From(m, since), 1, Min(Len(From(m, since)), Min(lim, c)))

InitHonest ==
    /\ InitProgram
    /\ market \in Markets
    /\ cap \in 1..MaxBatch
    /\ conv = NoConv

AnswerWell ==
    \/ Batch(WellBehavedAnswer(market, current_start, limit, cap))
    \/ EmptyBatch(WellBehavedAnswer(market, current_start, limit, cap))

NextHonest ==
    \/ CallFetch
    \/ AnswerWell

SpecHonest == InitHonest /\ [][NextHonest]_vars

\* ------------------------------------------------------ symbol conversions
\* a symbol in the exchange's form is converted for the file name and the
\* symbol column and converted back (lines 74-85), or a symbol in the file's
\* form is converted for the exchange and back
StartConversion ==
    /\ conv.step = "none"
    /\ \E s \in Symbols, first \in {"to_csv", "to_ccxt"} :
          conv' = [step |-> first, input |-> s, mid |-> <<>>, out |-> <<>>]
    /\ UNCHANGED <<pc, fetchArgs, fetchLocals, storeVars, outcome, sorted_data,
                   prev, market, cap>>

ConvertThere ==
    /\ conv.step \in {"to_csv", "to_ccxt"}
    /\ conv' = [conv EXCEPT
          !.mid = IF conv.step = "to_csv"
                  THEN convert_symbol_to_csv_format(conv.input)
                  ELSE convert_csv_to_ccxt_format(conv.input),
          !.step = IF conv.step = "to_csv" THEN "back_to_ccxt" ELSE "back_to_csv"]
    /\ UNCHANGED <<pc, fetchArgs, fetchLocals, storeVars, outcome, sorted_data,
                   prev, market, cap>>

ConvertBack ==
    /\ conv.step \in {"back_to_ccxt", "back_to_csv"}
    /\ conv' = [conv EXCEPT
          !.out = IF conv.step = "back_to_ccxt"
                  THEN convert_csv_to_ccxt_format(conv.mid)
                  ELSE convert_symbol_to_csv_format(conv.mid),
          !.step = IF conv.step = "back_to_ccxt" THEN "ccxt_again" ELSE "csv_again"]
    /\ UNCHANGED <<pc, fetchArgs, fetchLocals, storeVars, outcome, sorted_data,
                   prev, market, cap>>

NextSymbol ==
    \/ StartConversion
    \/ ConvertThere
    \/ ConvertBack

SpecSymbol == Init /\ [][NextSymbol]_vars

\* ----------------------------------------------------------------- claims
Timestamps(data) == {data[i][1] : i \in DOMAIN data}
RowTimes(rows)   == {rows[i].open_timestamp_ms : i \in DOMAIN rows}
Aborted(oc)      == oc \in {"exhausted", "unknown"}

\* C1: every candle in the list fetch_ohlcv_data returns opens before
\* end_time, whatever the exchange answered; a candle at end_time is dropped
C1_BoundaryExclusion ==
    pc = "fetched" => \A i \in DOMAIN sorted_data : sorted_data[i][1] < end_time

\* the last answer held a candle at end_time next to candles that were kept
C1_Witness ==
    /\ pc = "fetched"
    /\ success
    /\ sorted_data # <<>>
    /\ \E i \in DOMAIN ohlcv : ohlcv[i][1] = end_time

\* C2: the returned list is strictly ascending in open time (so no timestamp
\* occurs twice), after a complete fetch and after an aborted one
C2_StrictlyAscending ==
    pc = "fetched" =>
        \A i \in 1..(Len(sorted_data) - 1) : sorted_data[i][1] < sorted_data[i + 1][1]

\* an aborted fetch whose accumulated candles were out of order and held a
\* timestamp twice
C2_Witness ==
    /\ pc = "fetched"
    /\ Aborted(outcome)
    /\ Len(sorted_data) >= 2
    /\ Len(all_data) > Len(sorted_data)
    /\ \E i \in 1..(Len(all_data) - 1) : all_data[i][1] > all_data[i + 1][1]

\* C3: whenever the file holds a dataset, its open times are strictly
\* ascending, hence unique, after any sequence of fetch-then-merge runs
C3_PersistedUniqueAscending ==
    file.kind = "data" =>
        \A i \in 1..(Len(file.rows) - 1) :
            file.rows[i].open_timestamp_ms < file.rows[i + 1].open_timestamp_ms

\* an incremental run after a partial fetch has added rows to the prior
\* dataset, one of them in front of the prior rows
C3_Witness ==
    /\ pc = "saved"
    /\ TakesMergeBranch(prior, incremental)
    /\ Aborted(outcome)
    /\ Len(file.rows) > Len(prior.rows)
    /\ prior.rows[1].open_timestamp_ms > sorted_data[1][1]

\* C4: after an incremental merge into a readable, non-empty prior dataset,
\* every timestamp of the new sequence has exactly one row and that row
\* carries the new values, and every prior row of another timestamp is kept
C4_TieBreakNewWins ==
    (pc = "saved" /\ TakesMergeBranch(prior, incremental)) =>
        /\ \A j \in DOMAIN sorted_data :
              /\ Cardinality({i \in DOMAIN file.rows :
                    file.rows[i].open_timestamp_ms = sorted_data[j][1]}) = 1
              /\ \E i \in DOMAIN file.rows : file.rows[i] = Row(sorted_data[j])
        /\ \A k \in DOMAIN prior.rows :
              prior.rows[k].open_timestamp_ms \notin Timestamps(sorted_data) =>
                  Cardinality({i \in DOMAIN file.rows : file.rows[i] = prior.rows[k]}) = 1

\* the prior dataset had a candle at a time of the new sequence with another
\* payload, and a candle at a time the new sequence lacks
C4_Witness ==
    /\ pc = "saved"
    /\ TakesMergeBranch(prior, incremental)
    /\ \E k \in DOMAIN prior.rows, j \in DOMAIN sorted_data :
          /\ prior.rows[k].open_timestamp_ms = sorted_data[j][1]
          /\ prior.rows[k].ohlcv # sorted_data[j][2]
    /\ \E k \in DOMAIN prior.rows :
          prior.rows[k].open_timestamp_ms \notin Timestamps(sorted_data)

\* C5: once merge_and_save_data has persisted a fetched sequence, running it
\* again with the same sequence and the same incremental flag persists the
\* file that is already there
C5_MergeIdempotent ==
    pc = "saved" => Persisted(file, sorted_data, incremental) = file

\* a merge that kept prior rows next to the new ones
C5_Witness ==
    /\ pc = "saved"
    /\ TakesMergeBranch(prior, incremental)
    /\ Len(file.rows) > Len(sorted_data)
    /\ RowTimes(prior.rows) \cap Timestamps(sorted_data) # {}

\* the requests and backoff sleeps at the current cursor position
RECURSIVE AttemptLog(_)
AttemptLog(l) ==
    IF l = <<>> THEN <<>>
    ELSE IF Head(l)[1] = "pace" THEN AttemptLog(Tail(l))
         ELSE <<Head(l)>> \o AttemptLog(Tail(l))

ExpectedAttempts(n, cs) ==
    [i \in 1..(2 * n) |->
        IF i % 2 = 1 THEN <<"request", cs>> ELSE <<"backoff", Pow2(i \div 2)>>]

\* C6 as stated: when the retries at a cursor position are exhausted, exactly
\* max_retries requests were made there, the k-th failure was followed by a
\* wait of 2^k, and every wait was followed by another request
C6_WaitsBetweenAttempts ==
    (pc = "fetched" /\ outcome = "exhausted") =>
        LET l == AttemptLog(log)
        IN  /\ Cardinality({i \in DOMAIN l : l[i] = <<"request", current_start>>})
                 = max_retries
            /\ \A i \in DOMAIN l :
                  l[i][1] = "backoff" => (i < Len(l) /\ l[i + 1][1] = "request")

\* C6 amended: exactly max_retries requests at the cursor position, each
\* followed by its wait of 2^k; the last wait, 2^max_retries, is followed by
\* the abort and not by another request
C6_BackoffBound ==
    (pc = "fetched" /\ outcome = "exhausted") =>
        AttemptLog(log) = ExpectedAttempts(max_retries, current_start)

\* the exchange failed every request of a fetch with max_retries = 3
C6_Witness ==
    /\ pc = "fetched"
    /\ outcome = "exhausted"
    /\ max_retries = default_max_retries
    /\ all_data = <<>>
    /\ Len(log) = 2 * default_max_retries

\* C7: two calls with the same arguments that return the same value ended the
\* same way: from the returned value the caller can tell an aborted fetch
\* from one that ran to the end of the range or of the data
C7_AbortIsSignalled ==
    (pc = "fetched" /\ prev.called /\ prev.returned = sorted_data) =>
        (Aborted(prev.outcome) <=> Aborted(outcome))

\* C8: while write_csv is writing, and after it, the file is either the
\* complete previous file or the complete new dataset
C8_AtomicPersistence ==
    pc \in {"writing", "saved"} => (file = prior \/ file = DataFile(target))

\* C9: an incremental merge over an unreadable prior file raises nothing and
\* persists the new sequence alone, as it does when there is no prior file
C9_CorruptPriorDegrades ==
    /\ pc # "error"
    /\ (pc = "saved" /\ incremental /\ prior.kind = "corrupt") =>
          file = Persisted(NoFile, sorted_data, incremental)

\* an incremental merge over an unreadable file has been written
C9_Witness ==
    /\ pc = "saved"
    /\ incremental
    /\ prior = CorruptFile
    /\ file = DataFile(new_df(sorted_data))

\* C10: every candle in the returned list opens at or after start_time
C10_LowerBound ==
    pc = "fetched" => \A i \in DOMAIN sorted_data : sorted_data[i][1] >= start_time

\* C11: a symbol converted to the other form and back is the symbol again,
\* from the exchange's form and from the file's form
C11_ConversionRoundTrip ==
    conv.step \in {"ccxt_again", "csv_again"} => conv.out = conv.input

RECURSIVE InRange(_, _, _)
InRange(m, st, et) ==
    IF m = <<>> THEN <<>>
    ELSE IF st <= Head(m)[1] /\ Head(m)[1] < et
         THEN <<Head(m)>> \o InRange(Tail(m), st, et)
         ELSE InRange(Tail(m), st, et)

\* C12: against an exchange that never fails and answers every request with
\* its earliest candles from since on, a fetch (with at least one attempt
\* allowed per request, as with the default max_retries) returns exactly the
\* exchange's candles of [start_time, end_time), ascending, and counts no
\* retry
C12_CompleteWithoutFailures ==
    (pc = "fetched" /\ max_retries >= 1) =>
        /\ sorted_data = InRange(market, start_time, end_time)
        /\ retry_count = 0

\* a range fetched in several answers from an exchange that also holds
\* candles before start_time and from end_time on
C12_Witness ==
    /\ pc = "fetched"
    /\ max_retries = default_max_retries
    /\ cap < Len(sorted_data)
    /\ sorted_data = InRange(market, start_time, end_time)
    /\ Len(market) > Len(sorted_data)

Candidates(data) == {data[i] : i \in DOMAIN data}

\* what a fetch returns holds the accumulated candles and nothing else: the
\* same timestamps, every candle one of all_data
ReturnsAccumulated ==
    /\ Timestamps(sorted_data) = Timestamps(all_data)
    /\ Candidates(sorted_data) \subseteq Candidates(all_data)

\* C13: once a request has failed with an unclassified exception the fetch
\* has returned: that request is the last one, whatever retry_count and
\* max_retries are, and the accumulated candles are returned
C13_UnknownErrorAborts ==
    (\E i \in DOMAIN log : log[i][1] = "unknown") =>
        /\ pc = "fetched"
        /\ outcome = "unknown"
        /\ Last(log)[1] = "unknown"
        /\ ReturnsAccumulated

\* an unclassified exception after a successful batch and one retry, with
\* retries left
C13_Witness ==
    /\ pc = "fetched"
    /\ outcome = "unknown"
    /\ all_data # <<>>
    /\ retry_count >= 1
    /\ retry_count + 1 < max_retries

\* a request has just failed with NetworkError or ExchangeError
TransientFailureStep ==
    /\ pc = "request"
    /\ Len(log') = Len(log) + 2
    /\ log'[Len(log) + 1][1] = "request"
    /\ Last(log')[1] = "backoff"

\* C14: a request that fails with NetworkError or ExchangeError was made at
\* the cursor and leaves the cursor, the accumulated candles and the other
\* locals as they were; only retry_count changes, by one
C14_FailureKeepsCursor ==
    [][TransientFailureStep =>
          /\ log'[Len(log) + 1] = <<"request", current_start>>
          /\ current_start' = current_start
          /\ all_data' = all_data
          /\ ohlcv' = ohlcv
          /\ success' = success
          /\ retry_count' = retry_count + 1]_vars

\* a second request at the same cursor is due after a failure that followed
\* a successful batch
C14_Witness ==
    /\ pc = "request"
    /\ retry_count >= 1
    /\ all_data # <<>>
    /\ current_start > start_time
    /\ Last(log)[1] = "backoff"

\* C15: a request answered without an exception and without a candle below
\* end_time is the last request of the fetch, and the fetch returns the
\* candles of the earlier batches
C15_EmptyAnswerEndsPagination ==
    (log # <<>> /\ Last(log)[1] = "request") =>
        /\ pc = "fetched"
        /\ outcome = "nodata"
        /\ \A i \in DOMAIN ohlcv : ohlcv[i][1] >= end_time
        /\ ReturnsAccumulated

\* after a batch was accumulated the exchange answered with candles that all
\* lie at or after end_time
C15_Witness ==
    /\ pc = "fetched"
    /\ outcome = "nodata"
    /\ all_data # <<>>
    /\ ohlcv # <<>>
    /\ Last(log)[1] = "request"

\* C16: whenever a request is due after a successful batch, the first thing
\* that happened since that batch is the sleep of exchange.rateLimit (when
\* it is not zero); the requests of a fetch are made one after the other
C16_PacedAfterSuccess ==
    (pc = "request" /\ all_data # <<>> /\ rateLimit # 0) =>
        (log # <<>> /\ Head(log) = <<"pace", rateLimit>>)

\* the next request is due right after the pacing sleep
C16_Witness ==
    /\ pc = "request"
    /\ all_data # <<>>
    /\ rateLimit # 0
    /\ log = << <<"pace", rateLimit>> >>

\* C17: the fetch returns after finitely many requests whatever the exchange
\* answers.  What the loops do next depends on current_start and retry_count
\* only, and the exchange is free to give the same answer again, so a fetch
\* that always returns has no answered request after which the loop goes on
\* with both of them unchanged
C17_EveryAnswerMakesProgress ==
    [][(pc = "request" /\ pc' = "request") =>
          <<current_start', retry_count'>> # <<current_start, retry_count>>]_vars

\* C18: when the fetch has returned an empty list the next step of the
\* pipeline leaves the file as it is and saves nothing, and save_to_csv
\* itself writes nothing for an empty list
C18_EmptyFetchKeepsFile ==
    [][(pc = "fetched" /\ sorted_data = <<>>) =>
          /\ file' = file
          /\ pc' = "idle"
          /\ Persisted(file, sorted_data, FALSE) = file]_vars

\* an empty fetch was passed over while the key had a dataset
C18_Witness ==
    /\ pc = "idle"
    /\ sorted_data = <<>>
    /\ outcome # "running"
    /\ file.kind = "data"
    /\ file.rows # <<>>

\* C19: for every timestamp accumulated the returned list holds exactly one
\* candle, the one accumulated first
C19_FirstSeenWins ==
    pc = "fetched" =>
        \A j \in DOMAIN all_data :
            (\A k \in 1..(j - 1) : all_data[k][1] # all_data[j][1]) =>
                /\ \E i \in DOMAIN sorted_data : sorted_data[i] = all_data[j]
                /\ Cardinality({i \in DOMAIN sorted_data :
                                   sorted_data[i][1] = all_data[j][1]}) = 1

\* a timestamp was accumulated twice with different payloads
C19_Witness ==
    /\ pc = "fetched"
    /\ \E j, k \in DOMAIN all_data :
          /\ j < k
          /\ all_data[j][1] = all_data[k][1]
          /\ all_data[j][2] # all_data[k][2]

\* C20: the prefix an aborted fetch returned is stored like any other fetch
\* result: after the save the file is what merge_and_save_data makes of the
\* prior file and the prefix, and without the incremental flag it is the
\* prefix alone
C20_AbortedPrefixPersisted ==
    (pc = "saved" /\ Aborted(outcome)) =>
        /\ file = Persisted(prior, sorted_data, incremental)
        /\ ~incremental => file = DataFile(new_df(sorted_data))

\* a non-incremental run replaced a longer dataset by the prefix of an
\* aborted fetch
C20_Witness ==
    /\ pc = "saved"
    /\ Aborted(outcome)
    /\ ~incremental
    /\ prior.kind = "data"
    /\ Len(prior.rows) > Len(sorted_data)
    /\ file = DataFile(new_df(sorted_data))

====
